---- MODULE Spec2Model ----
(***************************************************************************)
(* Model of jwt-km (src/jwt.ts): the JWT class, its codec helpers and the  *)
(* HS256 signing / verification path.                                      *)
(*                                                                         *)
(* Strings are sequences of character codes (ASCII), so that splitting on  *)
(* ".", base64url and JSON text are computed, not assumed.  JSON values    *)
(* are uniform records [t, n, s, o]:                                       *)
(*   t = "undef" | "null" | "bool" | "num" | "str" | "obj"                 *)
(*   n = the number (or 0/1 for a boolean), s = the string's characters,   *)
(*   o = the object's properties, a sequence of [k, v] in JS key order.    *)
(***************************************************************************)
EXTENDS Integers, Sequences, FiniteSets, TLC

\* ------------------------------------------------------------------ bounds
MaxClaims == 1      \* addClaim calls on one JWT instance
MaxTime == 11       \* the clock stops advancing here
MaxChain == 2       \* addClaim calls on one JWT instance, when only claims are at stake

\* -------------------------------------------------------- character codes
DOT == <<46>>
alg == <<97, 108, 103>>
typ == <<116, 121, 112>>
HS256 == <<72, 83, 50, 53, 54>>
JWTstr == <<74, 87, 84>>
iss == <<105, 115, 115>>
exp == <<101, 120, 112>>
iat == <<105, 97, 116>>
undefinedStr == <<117, 110, 100, 101, 102, 105, 110, 101, 100>>
trueStr == <<116, 114, 117, 101>>
falseStr == <<102, 97, 108, 115, 101>>
nullStr == <<110, 117, 108, 108>>

IsDigit(c) == c >= 48 /\ c <= 57
IsHexChar(c) == IsDigit(c) \/ (c >= 97 /\ c <= 102) \/ (c >= 65 /\ c <= 70)
HexVal(c) == IF IsDigit(c) THEN c - 48 ELSE IF c >= 97 THEN c - 87 ELSE c - 55

Pow2(k) == 2 ^ k

\* ------------------------------------------------------------- JS values
Undef == [t |-> "undef", n |-> 0, s |-> <<>>, o |-> <<>>]
Null == [t |-> "null", n |-> 0, s |-> <<>>, o |-> <<>>]
Bool(b) == [t |-> "bool", n |-> IF b THEN 1 ELSE 0, s |-> <<>>, o |-> <<>>]
Num(i) == [t |-> "num", n |-> i, s |-> <<>>, o |-> <<>>]
Str(chars) == [t |-> "str", n |-> 0, s |-> chars, o |-> <<>>]
Obj(props) == [t |-> "obj", n |-> 0, s |-> <<>>, o |-> props]

\* A property key that JS treats as an array index (enumerated first, ascending).
IsIndexKey(k) ==
    /\ Len(k) >= 1
    /\ \A i \in 1..Len(k) : IsDigit(k[i])
    /\ (Len(k) = 1 \/ k[1] # 48)

RECURSIVE DigitsToNat(_)
DigitsToNat(k) ==
    IF Len(k) = 0 THEN 0
    ELSE 10 * DigitsToNat(SubSeq(k, 1, Len(k) - 1)) + (k[Len(k)] - 48)

HasProp(props, k) == \E i \in 1..Len(props) : props[i].k = k

\* obj[k]: the own property, undefined when absent.
GetProp(props, k) ==
    IF HasProp(props, k)
    THEN props[CHOOSE i \in 1..Len(props) : props[i].k = k].v
    ELSE Undef

\* Where a new key goes in the own-property order: index keys ascending
\* first, then string keys in insertion order.
InsertPos(props, k) ==
    IF IsIndexKey(k)
    THEN Cardinality({i \in 1..Len(props) :
             IsIndexKey(props[i].k) /\ DigitsToNat(props[i].k) < DigitsToNat(k)}) + 1
    ELSE Len(props) + 1

\* obj[k] = v
SetProp(props, k, v) ==
    IF HasProp(props, k)
    THEN [i \in 1..Len(props) |-> IF props[i].k = k THEN [k |-> k, v |-> v] ELSE props[i]]
    ELSE LET p == InsertPos(props, k)
         IN  SubSeq(props, 1, p - 1) \o <<[k |-> k, v |-> v]>> \o SubSeq(props, p, Len(props))

\* ---------------------------------------------------------------- base64url
B64Char(v) ==
    IF v < 26 THEN 65 + v
    ELSE IF v < 52 THEN 97 + (v - 26)
    ELSE IF v < 62 THEN 48 + (v - 52)
    ELSE IF v = 62 THEN 45 ELSE 95

IsB64Char(c) ==
    \/ (c >= 65 /\ c <= 90) \/ (c >= 97 /\ c <= 122) \/ IsDigit(c)
    \/ c = 45 \/ c = 95 \/ c = 43 \/ c = 47

B64Val(c) ==
    IF c >= 65 /\ c <= 90 THEN c - 65
    ELSE IF c >= 97 /\ c <= 122 THEN c - 97 + 26
    ELSE IF IsDigit(c) THEN c - 48 + 52
    ELSE IF c = 45 \/ c = 43 THEN 62 ELSE 63

\* Mutant of ToBase64Url: the "base64" encoding, padded with "=".
ToBase64Padded(bytes) ==
    LET n == Len(bytes)
        At(i) == IF i <= n THEN bytes[i] ELSE 0
        chars == (4 * n + 2) \div 3
    IN  [j \in 1..(4 * ((n + 2) \div 3)) |->
            IF j > chars THEN 61
            ELSE LET bit == 6 * (j - 1)
                     idx == (bit \div 8) + 1
                     off == bit % 8
                 IN  B64Char(((At(idx) * 256 + At(idx + 1)) \div Pow2(10 - off)) % 64)]

\* Buffer.toString("base64url"): 6 bits per character, no padding.
ToBase64Url(bytes) ==
    LET n == Len(bytes)
        At(i) == IF i <= n THEN bytes[i] ELSE 0
    IN  [j \in 1..((4 * n + 2) \div 3) |->
            LET bit == 6 * (j - 1)
                idx == (bit \div 8) + 1
                off == bit % 8
            IN  B64Char(((At(idx) * 256 + At(idx + 1)) \div Pow2(10 - off)) % 64)]

\* Buffer.from(string, "base64url"): characters outside the alphabet are
\* skipped, decoding stops at "=", leftover bits are dropped.
FromBase64Url(chars) ==
    LET stop == IF \E i \in 1..Len(chars) : chars[i] = 61
                THEN (CHOOSE i \in 1..Len(chars) :
                         chars[i] = 61 /\ \A j \in 1..(i - 1) : chars[j] # 61) - 1
                ELSE Len(chars)
        kept == SelectSeq(SubSeq(chars, 1, stop), IsB64Char)
        m == Len(kept)
    IN  [i \in 1..((6 * m) \div 8) |->
            LET bit == 8 * (i - 1)
                idx == (bit \div 6) + 1
                off == bit % 6
            IN  ((B64Val(kept[idx]) * 64 + B64Val(kept[idx + 1])) \div Pow2(4 - off)) % 256]

\* -------------------------------------------------------------------- JSON
RECURSIVE NatToDigits(_)
NatToDigits(i) ==
    IF i < 10 THEN <<48 + i>> ELSE NatToDigits(i \div 10) \o <<48 + (i % 10)>>

NumberToString(i) == IF i < 0 THEN <<45>> \o NatToDigits(0 - i) ELSE NatToDigits(i)

RECURSIVE EscapeChars(_)
EscapeChars(chars) ==
    IF Len(chars) = 0 THEN <<>>
    ELSE (IF Head(chars) = 34 \/ Head(chars) = 92 THEN <<92, Head(chars)>> ELSE <<Head(chars)>>)
         \o EscapeChars(Tail(chars))

Quote(chars) == <<34>> \o EscapeChars(chars) \o <<34>>

\* JSON.stringify of a value that is not an object (the model's claim values).
StringifyScalar(v) ==
    IF v.t = "num" THEN NumberToString(v.n)
    ELSE IF v.t = "str" THEN Quote(v.s)
    ELSE IF v.t = "bool" THEN (IF v.n = 1 THEN trueStr ELSE falseStr)
    ELSE nullStr

RECURSIVE StringifyMembers(_, _)
StringifyMembers(props, first) ==
    IF Len(props) = 0 THEN <<>>
    ELSE IF Head(props).v.t = "undef" THEN StringifyMembers(Tail(props), first)
    ELSE (IF first THEN <<>> ELSE <<44>>)
         \o Quote(Head(props).k) \o <<58>> \o StringifyScalar(Head(props).v)
         \o StringifyMembers(Tail(props), FALSE)

\* JSON.stringify(object): own properties in key order, undefined values omitted.
JSONStringify(props) == <<123>> \o StringifyMembers(props, TRUE) \o <<125>>

NoParse == [ok |-> FALSE, val |-> Undef, next |-> 0]

\* The characters of a JSON string whose opening quote is at i - 1.
RECURSIVE ScanString(_, _, _)
ScanString(t, i, acc) ==
    IF i > Len(t) THEN [ok |-> FALSE, val |-> Undef, next |-> 0]
    ELSE IF t[i] = 34 THEN [ok |-> TRUE, val |-> Str(acc), next |-> i + 1]
    ELSE IF t[i] = 92
         THEN IF i + 1 <= Len(t) /\ (t[i + 1] = 34 \/ t[i + 1] = 92 \/ t[i + 1] = 47)
              THEN ScanString(t, i + 2, Append(acc, t[i + 1]))
              ELSE [ok |-> FALSE, val |-> Undef, next |-> 0]
    ELSE IF t[i] < 32 THEN [ok |-> FALSE, val |-> Undef, next |-> 0]
    ELSE ScanString(t, i + 1, Append(acc, t[i]))

RECURSIVE ScanDigits(_, _)
ScanDigits(t, i) == IF i <= Len(t) /\ IsDigit(t[i]) THEN ScanDigits(t, i + 1) ELSE i

ParseNumber(t, i) ==
    LET neg == t[i] = 45
        from == IF neg THEN i + 1 ELSE i
        to == ScanDigits(t, from)
        digits == SubSeq(t, from, to - 1)
    IN  IF to = from \/ (to - from > 1 /\ t[from] = 48) THEN NoParse
        ELSE [ok |-> TRUE,
              val |-> Num(IF neg THEN 0 - DigitsToNat(digits) ELSE DigitsToNat(digits)),
              next |-> to]

StartsWith(t, i, word) ==
    i + Len(word) - 1 <= Len(t) /\ SubSeq(t, i, i + Len(word) - 1) = word

\* A JSON value that is not an object, starting at i.
ParseScalar(t, i) ==
    IF i > Len(t) THEN NoParse
    ELSE IF t[i] = 34 THEN ScanString(t, i + 1, <<>>)
    ELSE IF t[i] = 45 \/ IsDigit(t[i]) THEN ParseNumber(t, i)
    ELSE IF StartsWith(t, i, trueStr) THEN [ok |-> TRUE, val |-> Bool(TRUE), next |-> i + 4]
    ELSE IF StartsWith(t, i, falseStr) THEN [ok |-> TRUE, val |-> Bool(FALSE), next |-> i + 5]
    ELSE IF StartsWith(t, i, nullStr) THEN [ok |-> TRUE, val |-> Null, next |-> i + 4]
    ELSE NoParse

\* The members of an object, the first key's opening quote expected at i.
RECURSIVE ParseMembers(_, _, _)
ParseMembers(t, i, props) ==
    IF i > Len(t) \/ t[i] # 34 THEN NoParse
    ELSE LET key == ScanString(t, i + 1, <<>>)
         IN  IF ~key.ok \/ key.next > Len(t) \/ t[key.next] # 58 THEN NoParse
             ELSE LET v == ParseScalar(t, key.next + 1)
                      got == SetProp(props, key.val.s, v.val)
                  IN  IF ~v.ok \/ v.next > Len(t) THEN NoParse
                      ELSE IF t[v.next] = 125
                           THEN [ok |-> TRUE, val |-> Obj(got), next |-> v.next + 1]
                      ELSE IF t[v.next] = 44 THEN ParseMembers(t, v.next + 1, got)
                      ELSE NoParse

\* JSON.parse(text): ok = FALSE stands for the SyntaxError it throws.
\* Covers objects of scalar members and top-level scalars, without
\* whitespace: the texts the model's tokens decode to.
JSONParse(t) ==
    LET r == IF Len(t) >= 2 /\ t[1] = 123
             THEN IF t[2] = 125 THEN [ok |-> TRUE, val |-> Obj(<<>>), next |-> 3]
                  ELSE ParseMembers(t, 2, <<>>)
             ELSE ParseScalar(t, 1)
    IN  IF r.ok /\ r.next = Len(t) + 1 THEN r ELSE NoParse

\* ------------------------------------------------------------------ helpers
\* objectToBase64: JSON text, its UTF-8 bytes (ASCII here), base64url.
objectToBase64(props) == ToBase64Url(JSONStringify(props))

\* objectFromBase64: base64url to bytes to text to JSON.parse.
objectFromBase64(chars) == JSONParse(FromBase64Url(chars))

\* ------------------------------------------------------------------ secrets
\* A secret argument: given = FALSE is a call without the argument.
Secret(chars) == [given |-> TRUE, s |-> chars]
NoSecret == [given |-> FALSE, s |-> <<>>]

\* Mutant of IsHexSecret: the pattern with * for +, which lets "" through.
IsHexSecretOrEmpty(secret) ==
    LET str == IF secret.given THEN secret.s ELSE undefinedStr
    IN  \A i \in 1..Len(str) : IsHexChar(str[i])

\* /^[a-fA-F0-9]+$/.test(secret): the argument is converted to a string first.
IsHexSecret(secret) ==
    LET str == IF secret.given THEN secret.s ELSE undefinedStr
    IN  Len(str) >= 1 /\ \A i \in 1..Len(str) : IsHexChar(str[i])

\* Buffer.from(secret, "hex"): two digits per byte, either letter case, a
\* trailing unpaired digit is dropped.
BufferFromHex(chars) ==
    [i \in 1..(Len(chars) \div 2) |-> HexVal(chars[2 * i - 1]) * 16 + HexVal(chars[2 * i])]

\* HMAC pads a key shorter than its block with zero bytes, so trailing zero
\* bytes of the key do not change the digest.  (Keys longer than the 64-byte
\* block are hashed first; the model's secrets are shorter.)
RECURSIVE HmacKey(_)
HmacKey(bytes) ==
    IF Len(bytes) > 0 /\ bytes[Len(bytes)] = 0
    THEN HmacKey(SubSeq(bytes, 1, Len(bytes) - 1))
    ELSE bytes

\* createHmac("sha256", key).update(body).digest(): SHA-256 is not computed;
\* the digest is a collision-free function of the padded key and the message,
\* written as the bytes <<|key|>> \o key \o message.
HmacDigest(key, body) == <<Len(HmacKey(key))>> \o HmacKey(key) \o body

\* hmac.digest("base64url")
Signature(secretChars, body) == ToBase64Url(HmacDigest(BufferFromHex(secretChars), body))

\* ------------------------------------------------------------------- split
\* token.split("."): the stretches between the dots, always at least one part.
Split(t) ==
    LET dots == {i \in 1..Len(t) : t[i] = 46}
        \* the k-th dot; 0 and Len(t) + 1 stand for the two ends
        Dot(k) == IF k = 0 THEN 0
                  ELSE IF k > Cardinality(dots) THEN Len(t) + 1
                  ELSE CHOOSE d \in dots : Cardinality({e \in dots : e < d}) = k - 1
    IN  [k \in 1..(Cardinality(dots) + 1) |-> SubSeq(t, Dot(k - 1) + 1, Dot(k) - 1)]

\* ------------------------------------------------------------ call outcomes
\* Every call returns or throws; the outcome record is uniform:
\*   kind = "return" | "throw", err = which error, val = the returned value
\*   (val.t = "pair" for unwrap's [header, payload], "jwt" for a JWT
\*   instance; hdr and pl then hold the two objects).
Nothing == [t |-> "none", n |-> 0, s |-> <<>>, o |-> <<>>]
Return(v) == [kind |-> "return", err |-> "", val |-> v, hdr |-> Nothing, pl |-> Nothing]
ReturnTwo(tag, h, p) ==
    [kind |-> "return", err |-> "", val |-> [t |-> tag, n |-> 0, s |-> <<>>, o |-> <<>>],
     hdr |-> h, pl |-> p]
Throw(e) == [kind |-> "throw", err |-> e, val |-> Nothing, hdr |-> Nothing, pl |-> Nothing]

SecretError == "Secret must be a hex string. (No 0x)"

\* ---------------------------------------------------------------- JWT class
defaultHeader == <<[k |-> alg, v |-> Str(HS256)], [k |-> typ, v |-> Str(JWTstr)]>>

\* JS truthiness of a value (issuedAt || unixTime()).
Truthy(v) ==
    IF v.t = "num" THEN v.n # 0
    ELSE IF v.t = "str" THEN Len(v.s) > 0
    ELSE IF v.t = "bool" THEN v.n = 1
    ELSE v.t = "obj"

\* new JWT(issuer, expiration, issuedAt) at time now; Undef for a missing argument.
NewJWT(issuer, expiration, issuedAt, now) ==
    LET p0 == <<>>
        p1 == IF issuer # Undef THEN SetProp(p0, iss, issuer) ELSE p0
        p2 == IF expiration # Undef THEN SetProp(p1, exp, expiration) ELSE p1
        p3 == IF issuer # Undef /\ expiration # Undef
              THEN SetProp(p2, iat, IF Truthy(issuedAt) THEN issuedAt ELSE Num(now))
              ELSE p2
    IN  [header |-> defaultHeader, payload |-> p3]

\* Mutant of addClaim: a claim that is already there keeps its value.
addClaimIfAbsent(j, claimName, value) ==
    IF HasProp(j.payload, claimName) THEN j
    ELSE [j EXCEPT !.payload = SetProp(j.payload, claimName, value)]

addClaim(j, claimName, value) == [j EXCEPT !.payload = SetProp(j.payload, claimName, value)]

getClaim(j, claimName) == GetProp(j.payload, claimName)

TokenBody(j) == objectToBase64(j.header) \o DOT \o objectToBase64(j.payload)

getToken(j, secret) ==
    IF ~IsHexSecret(secret) THEN Throw(SecretError)
    ELSE Return(Str(TokenBody(j) \o DOT \o Signature(secret.s, TokenBody(j))))

\* Mutant of verify: the given signature need only be a prefix of the computed one.
verifyPrefix(token, secret) ==
    IF ~IsHexSecret(secret) THEN Throw(SecretError)
    ELSE LET parts == Split(token)
             sig == Signature(secret.s, parts[1] \o DOT \o parts[2])
         IN  IF Len(parts) # 3 THEN Return(Bool(FALSE))
             ELSE Return(Bool(Len(parts[3]) <= Len(sig)
                              /\ SubSeq(sig, 1, Len(parts[3])) = parts[3]))

\* Mutant of verify: a token of the wrong shape is an error, not false.
verifyShapeThrows(token, secret) ==
    IF ~IsHexSecret(secret) THEN Throw(SecretError)
    ELSE LET parts == Split(token)
         IN  IF Len(parts) # 3 THEN Throw("Malformed token")
             ELSE Return(Bool(Signature(secret.s, parts[1] \o DOT \o parts[2]) = parts[3]))

verify(token, secret) ==
    IF ~IsHexSecret(secret) THEN Throw(SecretError)
    ELSE LET parts == Split(token)
         IN  IF Len(parts) # 3 THEN Return(Bool(FALSE))
             ELSE Return(Bool(Signature(secret.s, parts[1] \o DOT \o parts[2]) = parts[3]))

Verified(token, secret) == verify(token, secret) = Return(Bool(TRUE))

\* Mutant of unwrap: header and payload returned in the wrong order.
unwrapSwapped(token, secret) ==
    LET v == verify(token, secret)
        parts == Split(token)
        h == objectFromBase64(parts[1])
        p == objectFromBase64(parts[2])
    IN  IF v.kind = "throw" THEN v
        ELSE IF v.val.n = 0 THEN Return(Null)
        ELSE IF ~h.ok \/ ~p.ok THEN Throw("SyntaxError")
        ELSE ReturnTwo("pair", p.val, h.val)

unwrap(token, secret) ==
    LET v == verify(token, secret)
        parts == Split(token)
        h == objectFromBase64(parts[1])
        p == objectFromBase64(parts[2])
    IN  IF v.kind = "throw" THEN v
        ELSE IF v.val.n = 0 THEN Return(Null)
        ELSE IF ~h.ok \/ ~p.ok THEN Throw("SyntaxError")
        ELSE ReturnTwo("pair", h.val, p.val)

\* for(const property in payload) result.addClaim(property, payload[property])
RECURSIVE CopyClaims(_, _)
CopyClaims(j, props) ==
    IF Len(props) = 0 THEN j
    ELSE CopyClaims(addClaim(j, Head(props).k, Head(props).v), Tail(props))

\* What for-in enumerates: an object's properties, a string's indices,
\* nothing for any other value.
ForInProps(v) ==
    IF v.t = "obj" THEN v.o
    ELSE IF v.t = "str"
         THEN [i \in 1..Len(v.s) |-> [k |-> NumberToString(i - 1), v |-> Str(<<v.s[i]>>)]]
    ELSE <<>>

\* Mutant of fromToken: the claims are read from the header segment.
fromTokenOfHeader(token, secret, now) ==
    LET v == verify(token, secret)
        parts == Split(token)
        p == objectFromBase64(parts[1])
        result == CopyClaims(NewJWT(Undef, Undef, Undef, now), ForInProps(p.val))
    IN  IF v.kind = "throw" THEN v
        ELSE IF v.val.n = 0 THEN Return(Null)
        ELSE IF ~p.ok THEN Throw("SyntaxError")
        ELSE ReturnTwo("jwt", Obj(result.header), Obj(result.payload))

\* Mutant of fromToken: the new JWT takes the header the token carries.
fromTokenKeepsHeader(token, secret, now) ==
    LET v == verify(token, secret)
        parts == Split(token)
        h == objectFromBase64(parts[1])
        p == objectFromBase64(parts[2])
        result == CopyClaims(NewJWT(Undef, Undef, Undef, now), ForInProps(p.val))
    IN  IF v.kind = "throw" THEN v
        ELSE IF v.val.n = 0 THEN Return(Null)
        ELSE IF ~p.ok THEN Throw("SyntaxError")
        ELSE ReturnTwo("jwt", IF h.ok /\ h.val.t = "obj" THEN h.val ELSE Obj(result.header),
                       Obj(result.payload))

fromToken(token, secret, now) ==
    LET v == verify(token, secret)
        parts == Split(token)
        p == objectFromBase64(parts[2])
        result == CopyClaims(NewJWT(Undef, Undef, Undef, now), ForInProps(p.val))
    IN  IF v.kind = "throw" THEN v
        ELSE IF v.val.n = 0 THEN Return(Null)
        ELSE IF ~p.ok THEN Throw("SyntaxError")
        ELSE ReturnTwo("jwt", Obj(result.header), Obj(result.payload))

\* ToNumber of the right operand of "<": NaN is [nan |-> TRUE].
ToNumber(v) ==
    IF v.t = "num" THEN [nan |-> FALSE, n |-> v.n]
    ELSE IF v.t = "bool" THEN [nan |-> FALSE, n |-> v.n]
    ELSE IF v.t = "null" THEN [nan |-> FALSE, n |-> 0]
    ELSE IF v.t = "str" /\ \A i \in 1..Len(v.s) : IsDigit(v.s[i])
         THEN [nan |-> FALSE, n |-> DigitsToNat(v.s)]
    ELSE [nan |-> TRUE, n |-> 0]

\* number < value: false whenever the value converts to NaN.
LessThan(x, v) == ~ToNumber(v).nan /\ x < ToNumber(v).n

\* Mutant of expired: a token without exp never expires.
expiredNeedsExp(token, secret, now) ==
    LET v == verify(token, secret)
        parts == Split(token)
        p == objectFromBase64(parts[2])
        expField == IF p.val.t = "obj" THEN GetProp(p.val.o, exp) ELSE Undef
    IN  IF v.kind = "throw" THEN v
        ELSE IF v.val.n = 0 THEN Return(Bool(TRUE))
        ELSE IF ~p.ok THEN Throw("SyntaxError")
        ELSE IF p.val.t = "null" THEN Throw("TypeError")
        ELSE IF expField = Undef THEN Return(Bool(FALSE))
        ELSE Return(Bool(LessThan(now, expField)))

expired(token, secret, now) ==
    LET v == verify(token, secret)
        parts == Split(token)
        p == objectFromBase64(parts[2])
        expField == IF p.val.t = "obj" THEN GetProp(p.val.o, exp) ELSE Undef
    IN  IF v.kind = "throw" THEN v
        ELSE IF v.val.n = 0 THEN Return(Bool(TRUE))
        ELSE IF ~p.ok THEN Throw("SyntaxError")
        ELSE IF p.val.t = "null" THEN Throw("TypeError")
        ELSE IF expField = Undef THEN Return(Bool(TRUE))
        ELSE Return(Bool(LessThan(now, expField)))

\* ------------------------------------------------------------------- inputs
StartTime == 10

Issuers == {Undef, Str(<<108>>)}
Expirations == {Undef, Num(9), Num(11)}
IssuedAts == {Undef, Num(0), Num(7)}

\* Claim names: "exp", "alg" (also a header field) and the index-like key "1".
ClaimNames == {exp, alg, <<49>>}
\* Claim values: 0, the empty string, a string with a quote in it, false,
\* null and undefined.
ClaimValues == {Num(0), Str(<<>>), Str(<<120, 34>>), Bool(FALSE), Null, Undef}

\* Secrets used for signing: "AB" and "AB0".
Signers == {<<65, 66>>, <<65, 66, 48>>}
\* Secrets the pattern rejects: "", "xyz", "12z", "a~", and the missing argument.
BadSecrets == {Secret(<<>>), Secret(<<120, 121, 122>>), Secret(<<49, 50, 122>>),
               Secret(<<97, 126>>), NoSecret}
\* Characters a secret's digit is flipped to, or that are appended to it.
SecretChars == {48, 49, 65, 97, 98}
\* Characters a token's character is flipped to, or that are appended to it.
TokenChars == {65, 46}

ReplaceAt(t, i, c) == [t EXCEPT ![i] = c]
DropAt(t, i) == SubSeq(t, 1, i - 1) \o SubSeq(t, i + 1, Len(t))

\* The positions of the dots of a token.
Dots(t) == {i \in 1..Len(t) : t[i] = 46}

\* Positions where a token is flipped: its ends and around each dot.
FlipPositions(t) ==
    {i \in 1..Len(t) : i = 1 \/ i = Len(t) \/ \E d \in Dots(t) : i \in (d - 1)..(d + 1)}

\* One character changed, the first or last character removed, or one appended.
TokenMutations(t) ==
    {ReplaceAt(t, i, c) : i \in FlipPositions(t), c \in TokenChars}
    \cup {DropAt(t, 1), DropAt(t, Len(t))}
    \cup {Append(t, c) : c \in TokenChars \cup {49}}

SecretMutations(s) ==
    {ReplaceAt(s, i, c) : i \in 1..Len(s), c \in SecretChars}
    \cup {DropAt(s, 1), DropAt(s, Len(s))}
    \cup {Append(s, c) : c \in SecretChars}

\* Tokens of the wrong shape: "", "a", "a.b", "a.b.c.d", "...", and
\* three-part tokens with an empty signature.
ShapeTokens ==
    {<<>>, <<97>>, <<97, 46, 98>>, <<97, 46, 98, 46, 99, 46, 100>>, <<46, 46, 46>>,
     <<46, 46>>, <<97, 46, 98, 46>>}

\* Header and payload segments signed by someone who holds the secret but
\* did not get them from getToken: not base64url JSON ("abc"), the JSON
\* texts null and "ab", and a foreign header {"alg":"x"}.
OtherHeader == <<[k |-> alg, v |-> Str(<<120>>)]>>
ForgedBodies(j) ==
    LET h == objectToBase64(j.header)
        p == objectToBase64(j.payload)
        junk == <<97, 98, 99>>
    IN  {<<junk, p>>, <<h, junk>>, <<h, ToBase64Url(nullStr)>>,
         <<h, ToBase64Url(<<34, 97, 98, 34>>)>>, <<objectToBase64(OtherHeader), p>>}

Sign(segs, s) ==
    LET body == segs[1] \o DOT \o segs[2] IN body \o DOT \o Signature(s, body)

\* The (token, secret) arguments of a static call, with the token getToken
\* gives for the current JWT under secret signer as the reference point.
Input(tok, sec, base, signer) == [tok |-> tok, sec |-> sec, base |-> base, signer |-> signer]

CallInputs(j) ==
    UNION {
        LET base == getToken(j, Secret(s)).val.s
        IN  {Input(base, Secret(s), base, s)}
            \cup {Input(m, Secret(s), base, s) : m \in TokenMutations(base) \ {base}}
            \cup {Input(base, Secret(m), base, s) : m \in SecretMutations(s) \ {s}}
            \cup {Input(t, b, base, s) : t \in {base, <<>>}, b \in BadSecrets}
            \cup {Input(t, Secret(s), base, s) : t \in ShapeTokens}
            \cup {Input(Sign(f, s), Secret(s), base, s) : f \in ForgedBodies(j)}
        : s \in Signers}

\* -------------------------------------------------------------------- state
VARIABLES
    jwt,      \* the JWT instance the caller holds: [header, payload]
    added,    \* addClaim calls made on it
    now,      \* unixTime()
    pc,       \* the caller: "ready" to make a call, or "returned" from one
    call      \* the call just made: its operation, arguments and outcome

vars == <<jwt, added, now, pc, call>>

NoInput == Input(<<>>, NoSecret, <<>>, <<>>)
Call(op, args, in, out) == [op |-> op, args |-> args, in |-> in, out |-> out]
NoCall == Call("none", <<>>, NoInput, Return(Undef))

Init ==
    /\ now = StartTime
    /\ \E i \in Issuers, e \in Expirations, a \in IssuedAts :
          /\ jwt = NewJWT(i, e, a, now)
          /\ call = Call("constructor", <<i, e, a>>, NoInput, Return(Undef))
    /\ added = 0
    /\ pc = "returned"

Construct ==
    /\ pc = "ready"
    /\ \E i \in Issuers, e \in Expirations, a \in IssuedAts :
        /\ jwt' = NewJWT(i, e, a, now)
        /\ added' = 0
        /\ call' = Call("constructor", <<i, e, a>>, NoInput, Return(Undef))
        /\ pc' = "returned"
        /\ UNCHANGED now

\* addClaim returns this: the instance it was called on, as it is after the call.
AddClaim ==
    /\ pc = "ready"
    /\ \E n \in ClaimNames, v \in ClaimValues :
        /\ added < MaxClaims
        /\ jwt' = addClaim(jwt, n, v)
        /\ added' = added + 1
        /\ call' = Call("addClaim", <<Str(n), v>>, NoInput,
                        ReturnTwo("this", Obj(addClaim(jwt, n, v).header),
                                  Obj(addClaim(jwt, n, v).payload)))
        /\ pc' = "returned"
        /\ UNCHANGED now

\* addClaim calls chained on one instance: jwt.addClaim(..).addClaim(..)
AddClaimChained ==
    /\ pc = "ready"
    /\ \E n \in ClaimNames, v \in ClaimValues :
        /\ added < MaxChain
        /\ jwt' = addClaim(jwt, n, v)
        /\ added' = added + 1
        /\ call' = Call("addClaim", <<Str(n), v>>, NoInput,
                        ReturnTwo("this", Obj(addClaim(jwt, n, v).header),
                                  Obj(addClaim(jwt, n, v).payload)))
        /\ pc' = "returned"
        /\ UNCHANGED now

GetClaim ==
    /\ pc = "ready"
    /\ \E n \in ClaimNames \cup {iss, iat} :
        /\ call' = Call("getClaim", <<Str(n)>>, NoInput, Return(getClaim(jwt, n)))
        /\ pc' = "returned"
        /\ UNCHANGED <<jwt, added, now>>

GetToken ==
    /\ pc = "ready"
    /\ \E s \in {Secret(x) : x \in Signers} \cup BadSecrets :
        /\ call' = Call("getToken", <<>>, Input(<<>>, s, <<>>, <<>>), getToken(jwt, s))
        /\ pc' = "returned"
        /\ UNCHANGED <<jwt, added, now>>

Verify ==
    /\ pc = "ready"
    /\ \E in \in CallInputs(jwt) :
        /\ call' = Call("verify", <<>>, in, verify(in.tok, in.sec))
        /\ pc' = "returned"
        /\ UNCHANGED <<jwt, added, now>>

Unwrap ==
    /\ pc = "ready"
    /\ \E in \in CallInputs(jwt) :
        /\ call' = Call("unwrap", <<>>, in, unwrap(in.tok, in.sec))
        /\ pc' = "returned"
        /\ UNCHANGED <<jwt, added, now>>

FromToken ==
    /\ pc = "ready"
    /\ \E in \in CallInputs(jwt) :
        /\ call' = Call("fromToken", <<>>, in, fromToken(in.tok, in.sec, now))
        /\ pc' = "returned"
        /\ UNCHANGED <<jwt, added, now>>

Expired ==
    /\ pc = "ready"
    /\ \E in \in CallInputs(jwt) :
        /\ call' = Call("expired", <<>>, in, expired(in.tok, in.sec, now))
        /\ pc' = "returned"
        /\ UNCHANGED <<jwt, added, now>>

\* The caller is done with the outcome and keeps the JWT it has.
Continue ==
    /\ pc = "returned"
    /\ pc' = "ready"
    /\ call' = NoCall
    /\ UNCHANGED <<jwt, added, now>>

\* The caller goes on with the JWT that fromToken returned.
UseRecovered ==
    /\ pc = "returned"
    /\ call.op = "fromToken"
    /\ call.out.val.t = "jwt"
    /\ jwt' = [header |-> call.out.hdr.o, payload |-> call.out.pl.o]
    /\ pc' = "ready"
    /\ call' = NoCall
    /\ UNCHANGED <<added, now>>

\* The clock advances between calls.
Tick ==
    /\ pc = "ready"
    /\ now < MaxTime
    /\ now' = now + 1
    /\ UNCHANGED <<jwt, added, pc, call>>

Next ==
    \/ Construct
    \/ AddClaim
    \/ GetClaim
    \/ GetToken
    \/ Verify
    \/ Unwrap
    \/ FromToken
    \/ Expired
    \/ Continue
    \/ UseRecovered
    \/ Tick

Spec == Init /\ [][Next]_vars

\* The JWT as a claim set only: construction, chained addClaim, getClaim
\* and getToken, without the static methods.
NextClaims ==
    \/ Construct
    \/ AddClaimChained
    \/ GetClaim
    \/ GetToken
    \/ Continue

SpecClaims == Init /\ [][NextClaims]_vars

\* =================================================================== claims
Returned(op) == pc = "returned" /\ call.op = op
StaticOps == {"verify", "unwrap", "fromToken", "expired"}
SecretOps == StaticOps \cup {"getToken"}

\* The call's token is the one getToken gives for the JWT under the call's
\* secret (call.in.base is that token for the secret call.in.signer).
Genuine ==
    /\ call.in.sec = Secret(call.in.signer)
    /\ call.in.tok = call.in.base

\* b is a with one character changed, one character removed, or one appended.
OneCharMutation(a, b) ==
    \/ /\ Len(b) = Len(a)
       /\ Cardinality({i \in 1..Len(a) : a[i] # b[i]}) = 1
    \/ /\ Len(b) = Len(a) - 1
       /\ \E i \in {1, Len(a)} : b = DropAt(a, i)
    \/ /\ Len(b) = Len(a) + 1
       /\ SubSeq(b, 1, Len(a)) = a

\* C1: verify(getToken(S), S) is true for every JWT state and every valid
\* hex secret S, and the string getToken returns splits on "." into exactly
\* three parts, none of which holds a padding character.
C1_VerifySound ==
    /\ (Returned("getToken") /\ IsHexSecret(call.in.sec)) =>
          /\ call.out.kind = "return"
          /\ Len(Split(call.out.val.s)) = 3
          /\ \A i \in 1..Len(call.out.val.s) : call.out.val.s[i] # 61
    /\ (Returned("verify") /\ Genuine) => call.out = Return(Bool(TRUE))

C1_Witness ==
    /\ Returned("verify")
    /\ Genuine
    /\ Len(jwt.payload) >= 2
    /\ call.out = Return(Bool(TRUE))

\* The key HMAC ends up with, read off the secret's characters: the values
\* of its hex digits taken in pairs, an unpaired last digit left out, and
\* pairs of zeros at the end left out (the key is shorter than HMAC's block).
RECURSIVE KeyDigits(_)
KeyDigits(s) ==
    LET n == 2 * (Len(s) \div 2)
    IN  IF n = 0 THEN <<>>
        ELSE IF HexVal(s[n - 1]) = 0 /\ HexVal(s[n]) = 0 THEN KeyDigits(SubSeq(s, 1, n - 2))
        ELSE [i \in 1..n |-> HexVal(s[i])]

TokenMutated ==
    /\ Returned("verify")
    /\ call.in.sec = Secret(call.in.signer)
    /\ OneCharMutation(call.in.base, call.in.tok)

SecretMutated ==
    /\ Returned("verify")
    /\ call.in.tok = call.in.base
    /\ call.in.sec.given
    /\ IsHexSecret(call.in.sec)
    /\ OneCharMutation(call.in.signer, call.in.sec.s)

\* C2 as stated: verify is false for every single-character mutation of the
\* token and for every valid hex single-character mutation of the secret.
C2_AnyMutationFails ==
    (TokenMutated \/ SecretMutated) => call.out = Return(Bool(FALSE))

\* C2 as amended: verify is false for every single-character mutation of the
\* token; for a valid hex single-character mutation S' of the secret it is
\* false exactly when S' gives another key than S (the hex digits read in
\* pairs whatever their letter case, an unpaired last digit dropped, and,
\* the key being shorter than HMAC's block, trailing zero bytes not
\* counting), and true when it gives the same key.
C2_MutationFails ==
    /\ TokenMutated => call.out = Return(Bool(FALSE))
    /\ SecretMutated =>
          call.out = Return(Bool(KeyDigits(call.in.sec.s) = KeyDigits(call.in.signer)))

C2_Witness ==
    /\ SecretMutated
    /\ Len(call.in.sec.s) = Len(call.in.signer) + 1
    /\ KeyDigits(call.in.sec.s) # KeyDigits(call.in.signer)
    /\ call.out = Return(Bool(FALSE))

\* C3: getToken, verify, unwrap, fromToken and expired throw the hex-format
\* error for every secret that is empty, missing or holds a non-hex
\* character, whatever the token is, and for no non-empty string of hex digits.
C3_SecretChecked ==
    (pc = "returned" /\ call.op \in SecretOps) =>
        LET str == IF call.in.sec.given THEN call.in.sec.s ELSE undefinedStr
            hex == Len(str) >= 1 /\ \A i \in 1..Len(str) :
                       str[i] \in (48..57) \cup (65..70) \cup (97..102)
        IN  (call.out = Throw(SecretError)) <=> (~call.in.sec.given \/ ~hex)

C3_Witness ==
    /\ Returned("expired")
    /\ call.in.sec = Secret(<<>>)
    /\ call.in.tok = <<>>
    /\ call.out = Throw(SecretError)

\* C4 as stated: with a valid hex secret, verify, unwrap, fromToken and
\* expired never throw, whatever the token is.
C4_NeverThrows ==
    (pc = "returned" /\ call.op \in StaticOps /\ IsHexSecret(call.in.sec)) =>
        call.out.kind = "return"

\* C5 as stated: for a token of getToken whose exp is a number, expired is
\* true exactly when now >= exp.
C5_ExpiredWhenPast ==
    (Returned("expired") /\ Genuine /\ getClaim(jwt, exp).t = "num") =>
        call.out = Return(Bool(now >= getClaim(jwt, exp).n))

\* The claim names of a payload.
Names(props) == {props[i].k : i \in 1..Len(props)}

\* C6: fromToken(getToken(S), S) is a new JWT whose getClaim agrees with the
\* original's for every claim name, whatever the order of the claims.
C6_RoundTrip ==
    (Returned("fromToken") /\ Genuine) =>
        /\ call.out.kind = "return"
        /\ call.out.val.t = "jwt"
        /\ \A n \in Names(jwt.payload) \cup Names(call.out.pl.o) \cup ClaimNames :
              GetProp(call.out.pl.o, n) = getClaim(jwt, n)

C6_Witness ==
    /\ Returned("fromToken")
    /\ Genuine
    /\ call.out.val.t = "jwt"
    /\ Len(jwt.payload) = 4
    /\ jwt.payload[1].k = <<49>>
    /\ jwt.payload[1].v = Str(<<120, 34>>)
    /\ GetProp(call.out.pl.o, <<49>>) = Str(<<120, 34>>)

\* The payload segment of the call's token decodes to a claim set (or any
\* JSON value but null) that has no exp.
PayloadWithoutExp ==
    LET parts == Split(call.in.tok)
        p == objectFromBase64(parts[2])
    IN  /\ Len(parts) = 3
        /\ p.ok
        /\ p.val.t # "null"
        /\ p.val.t = "obj" => ~HasProp(p.val.o, exp)

C8_InvalidExpExpired ==
    (Returned("expired") /\ Genuine /\ getClaim(jwt, exp).t \in {"str", "bool", "null"}) =>
        call.out = Return(Bool(TRUE))

\* C9: with a valid hex secret, unwrap and fromToken return null for every
\* token verify rejects; for the token of getToken, unwrap returns the
\* default header {alg: HS256, typ: JWT} and a payload holding exactly the
\* JWT's claims.
C9_Unwrap ==
    /\ (pc = "returned" /\ call.op \in {"unwrap", "fromToken"} /\ IsHexSecret(call.in.sec)
          /\ ~Verified(call.in.tok, call.in.sec)) => call.out = Return(Null)
    /\ (Returned("unwrap") /\ Genuine) =>
          /\ call.out.kind = "return"
          /\ call.out.val.t = "pair"
          /\ Len(call.out.hdr.o) = 2
          /\ GetProp(call.out.hdr.o, alg) = Str(HS256)
          /\ GetProp(call.out.hdr.o, typ) = Str(JWTstr)
          /\ Names(call.out.pl.o) \subseteq Names(jwt.payload)
          /\ \A n \in Names(jwt.payload) \cup ClaimNames :
                GetProp(call.out.pl.o, n) = getClaim(jwt, n)

C9_Witness ==
    /\ Returned("unwrap")
    /\ Genuine
    /\ call.out.val.t = "pair"
    /\ Len(call.out.pl.o) = 4

\* C10: with a valid hex secret, verify returns false, and does not throw,
\* for every token that does not have exactly two dots (the empty string and
\* tokens of 1, 2, or 4 and more parts).
C10_ShapeRejected ==
    (Returned("verify") /\ IsHexSecret(call.in.sec)
        /\ Cardinality({i \in 1..Len(call.in.tok) : call.in.tok[i] = 46}) # 2) =>
        call.out = Return(Bool(FALSE))

C10_Witness ==
    /\ Returned("verify")
    /\ IsHexSecret(call.in.sec)
    /\ Cardinality({i \in 1..Len(call.in.tok) : call.in.tok[i] = 46}) = 3
    /\ call.out = Return(Bool(FALSE))

\* The names getClaim is asked for: the claim names, iss, iat, and typ,
\* which nothing ever sets.
ProbeNames == ClaimNames \cup {iss, iat, typ}

\* One call, seen through getClaim before and after it.
C11_Step ==
    /\ (pc = "ready" /\ call'.op = "addClaim") =>
          /\ getClaim(jwt', call'.args[1].s) = call'.args[2]
          /\ \A m \in ProbeNames \ {call'.args[1].s} : getClaim(jwt', m) = getClaim(jwt, m)
          /\ call'.out.kind = "return"
          /\ call'.out.val.t = "this"
          /\ call'.out.pl = Obj(jwt'.payload)
          /\ call'.out.hdr = Obj(jwt'.header)
    /\ (pc = "ready" /\ call'.op = "getClaim") =>
          /\ call'.out = Return(GetProp(jwt.payload, call'.args[1].s))
          /\ (call'.out.val = Undef) <=>
                (~HasProp(jwt.payload, call'.args[1].s)
                 \/ GetProp(jwt.payload, call'.args[1].s) = Undef)
    /\ (pc = "ready" /\ call'.op \in {"getClaim", "getToken"}) =>
          \A m \in ProbeNames : getClaim(jwt', m) = getClaim(jwt, m)
    /\ pc = "returned" => \A m \in ProbeNames : getClaim(jwt', m) = getClaim(jwt, m)

\* A JWT fresh from the constructor has no claim but iss, exp and iat.
C11_FreshUnset ==
    (pc = "returned" /\ call.op = "constructor") =>
        \A m \in ProbeNames \ {iss, exp, iat} : getClaim(jwt, m) = Undef

\* C11: after any sequence of addClaim calls, getClaim(n) is the value of
\* the latest addClaim(n, v), false, 0 and "" included, and the other names
\* keep their values; a name never set gives undefined, which no stored
\* false, 0 or "" equals; addClaim returns the JWT it was called on.  Stated
\* call by call: a fresh JWT has only the constructor's claims, addClaim(n, v)
\* makes getClaim(n) = v and changes no other name, and no other call
\* changes any claim.
C11_LastWriteWins == []C11_FreshUnset /\ [][C11_Step]_vars

\* The second of two chained addClaim calls on the same name has replaced
\* the first one's value by "".
C11_Witness ==
    /\ pc = "returned"
    /\ call.op = "addClaim"
    /\ added = 2
    /\ Len(jwt.payload) = 1
    /\ call.args[2] = Str(<<>>)
    /\ getClaim(jwt, call.args[1].s) = Str(<<>>)
    /\ Str(<<>>) # Undef

\* C12: after new JWT(issuer, expiration, issuedAt), iss is set iff issuer is
\* given and is the issuer, exp is set iff expiration is given and is the
\* expiration; with both given, iat is issuedAt when issuedAt is provided
\* (for every number, 0 included) and the current unix time otherwise; with
\* issuer or expiration missing, iat is not set.
C12_ConstructorClaims ==
    Returned("constructor") =>
        LET issuer == call.args[1]
            expiration == call.args[2]
            issuedAt == call.args[3]
        IN  /\ HasProp(jwt.payload, iss) <=> issuer # Undef
            /\ issuer # Undef => GetProp(jwt.payload, iss) = issuer
            /\ HasProp(jwt.payload, exp) <=> expiration # Undef
            /\ expiration # Undef => GetProp(jwt.payload, exp) = expiration
            /\ (issuer # Undef /\ expiration # Undef) =>
                  /\ HasProp(jwt.payload, iat)
                  /\ GetProp(jwt.payload, iat) =
                        IF issuedAt # Undef THEN issuedAt ELSE Num(now)
            /\ (issuer = Undef \/ expiration = Undef) => ~HasProp(jwt.payload, iat)

\* The header every JWT is created with.
HeaderHS256JWT == <<[k |-> alg, v |-> Str(HS256)], [k |-> typ, v |-> Str(JWTstr)]>>

\* C13: the header of a JWT is {alg: "HS256", typ: "JWT"} in every state: no
\* addClaim, getClaim or getToken call changes it (addClaim("alg", v) and
\* addClaim("typ", v) change the payload only, and the instance addClaim
\* returns has the default header), and the JWT fromToken returns has the
\* default header whatever header the correctly signed token carried.
C13_HeaderDefault ==
    /\ jwt.header = HeaderHS256JWT
    /\ Returned("addClaim") =>
          /\ call.out.hdr = Obj(HeaderHS256JWT)
          /\ GetProp(jwt.payload, call.args[1].s) = call.args[2]
    /\ (Returned("fromToken") /\ call.out.kind = "return" /\ call.out.val.t = "jwt") =>
          call.out.hdr = Obj(HeaderHS256JWT)

\* fromToken returned a JWT for a correctly signed token whose header segment
\* is not the default header.
C13_Witness ==
    /\ Returned("fromToken")
    /\ call.out.kind = "return"
    /\ call.out.val.t = "jwt"
    /\ Split(call.in.tok)[1] = objectToBase64(OtherHeader)
    /\ OtherHeader # HeaderHS256JWT
    /\ HasProp(jwt.payload, alg)

====
